---- MODULE Spec2Model ----
(***************************************************************************)
(* Client-side synchronisation core of the Scopa web client:              *)
(*   lib/ws.js            connection manager and message dispatcher       *)
(*   lib/stores/game.js   the shared stores                               *)
(*   GameBoard.svelte     the capture selector (hand / table taps)        *)
(*   game/[session_id]/+page.svelte   the page that mounts the board      *)
(*                                                                         *)
(* One step of the model is one browser task: a call of the public API,   *)
(* one transport event of one WebSocket, one expired timer, or one tap,   *)
(* together with the Svelte reactive updates it triggers.                 *)
(***************************************************************************)
EXTENDS Integers, Sequences, FiniteSets, TLC

\* ------------------------------------------------------------------ bounds
MaxConnects == 2      \* number of connect() calls in a run
MaxScopas == 1        \* largest scopas count a state payload carries
MaxErrTimers == 1     \* outstanding errorMessage clear timers
MaxScopaTimers == 2   \* outstanding lastScopaBy clear timers
MaxAsked == 2         \* get_captures requests the server has not yet answered

\* ------------------------------------------------------------- value space
PlayerIds == {"A", "B"}
HandIds == {"h1", "h2"}           \* ids of the cards of human_hand
TableIds == {"c1", "c2", "c3"}    \* ids of the cards of table
JoinCodes == {"K7QX"}             \* values of sessionStorage scopa_join_code

NoId == "null"                    \* JavaScript null where a string is expected
Null == [null |-> TRUE]           \* JavaScript null where an object is expected
Undefined == [undefined |-> TRUE] \* a property the decoded frame does not have
Falsy(v) == v \in {Null, Undefined}

ConnIds == 1..MaxConnects

\* An option is a list of distinct table card ids (list<card_id>).
Range(s) == {s[i] : i \in DOMAIN s}

\* The payloads of the 'captures' message that the server is taken to send.
OptionLists ==
    { <<>>,
      << <<"c1">> >>,
      << <<"c1", "c2">>, <<"c3">> >>,
      << <<"c2", "c1">>, <<"c1", "c2">> >>,
      << <<"c1">>, <<"c2">>, <<"c1", "c2">> >>,
      << <<"c2", "c3">> >> }

\* players of a state payload, in the key order of the JSON object.
PlayerInfo == [pid : PlayerIds, scopas : 0..MaxScopas]
PlayerLists ==
    {<<>>} \cup {<<p>> : p \in PlayerInfo}
           \cup {<<pq[1], pq[2]>> :
                    pq \in {x \in PlayerInfo \X PlayerInfo : x[1].pid # x[2].pid}}

StatePayloads == [is_human_turn : BOOLEAN, players : PlayerLists]

RoundOverPayload == [type |-> "round_over", round_number |-> 1]

\* Inbound messages (the decoded frames), by type.
Messages ==
    {[type |-> "waiting"], [type |-> "opponent_disconnected"],
     [type |-> "pong"], [type |-> "bogus"], RoundOverPayload,
     [type |-> "error", message |-> "illegal"]}
    \cup {[type |-> "game_started", opponent_id |-> o, round |-> r] :
             o \in {NoId, "B"}, r \in {0, 2}}
    \cup {[type |-> "cards_dealt", round |-> r] : r \in {0, 2}}
    \cup {[type |-> "state", state |-> s] : s \in StatePayloads \cup {Undefined}}
    \cup {[type |-> "captures", options |-> o] : o \in OptionLists}

\* A frame whose text JSON.parse rejects.
BadFrame == [malformed |-> TRUE]

\* ------------------------------------------------------------------- state
VARIABLES
    ws,               \* _ws: the current WebSocket (a ConnId), 0 when null
    readyState,       \* readyState of every WebSocket created so far
    myPlayerId,       \* _myPlayerId
    wsStatus, gameState, selectedCard, captureOptions, capturesLoaded,
    roundResult, errorMessage, isWaiting, opponentId, joinCode, isDealing,
    roundNumber, dealType, lastScopaBy,       \* the stores of stores/game.js
    pendingTableIds,  \* GameBoard's local pendingTableIds
    errTimers,        \* setTimeout(() => errorMessage.set(null), 4000) not yet run
    scopaTimers,      \* setTimeout(() => lastScopaBy.set(null), 2500) not yet run,
                      \* oldest first, each with the owner of the event it follows
    outbox,           \* what the last step handed to _send: <<[msg, sent]>>
    asked             \* the server's side of the connection: the card ids of
                      \* the get_captures frames it has still to answer,
                      \* oldest first

connVars == <<ws, readyState, myPlayerId>>
storeVars == <<wsStatus, gameState, selectedCard, captureOptions, capturesLoaded,
               roundResult, errorMessage, isWaiting, opponentId, joinCode, isDealing,
               roundNumber, dealType, lastScopaBy>>
timerVars == <<errTimers, scopaTimers>>
vars == <<connVars, storeVars, pendingTableIds, timerVars, outbox, asked>>

\* --------------------------------------------------------- derived values
\* stores/game.js: isMyTurn = derived([gameState], $gs?.is_human_turn ?? false)
isMyTurn(gs) == IF Falsy(gs) THEN FALSE ELSE gs.is_human_turn

\* GameBoard.svelte: $: capturableIds = new Set($captureOptions.flat())
capturableIds(opts) == UNION {Range(opts[i]) : i \in DOMAIN opts}

\* +page.svelte: the {#if} chain that decides whether <GameBoard /> is mounted.
BoardMounted(status, waiting, gs, dealing) ==
    /\ status # "connecting"                            \* isConnecting
    /\ ~(status = "waiting" \/ waiting)                 \* isWaitingForOpponent
    /\ ~(status = "disconnected" /\ Falsy(gs))          \* isDisconnected && !$gameState
    /\ (~dealing \/ ~Falsy(gs))                         \* {#if !$isDealing || $gameState}

\* GameBoard.svelte: the cards (and their click handlers) exist only inside
\* the {:else} branch of {#if !$gameState}.
CardsRendered ==
    BoardMounted(wsStatus, isWaiting, gameState, isDealing) /\ ~Falsy(gameState)

\* Mutant of PendingAfter: a board without the reactive reset.
PendingAfterStale(p, sel, mounted) == p

\* GameBoard.svelte: pendingTableIds lives with the component and
\* "$: if ($selectedCard === null) pendingTableIds = new Set()" runs in the
\* update that follows every change of $selectedCard.
PendingAfter(p, sel, mounted) ==
    IF ~mounted \/ sel = NoId THEN {} ELSE p

\* ws.js _send: the frame goes out only on an OPEN socket.
CanTransmit == ws # 0 /\ readyState[ws] = "OPEN"
Send(msg) == <<[msg |-> msg, sent |-> CanTransmit]>>

\* Mutant of GetCapturesMsg: a request that always names the first card.
GetCapturesMsgFixed(cardId) == [type |-> "get_captures", card_id |-> "h1"]

\* ws.js sendPlay / sendGetCaptures
PlayMsg(cardId, captureIds) ==
    [type |-> "play", card_id |-> cardId, capture_ids |-> captureIds]
GetCapturesMsg(cardId) == [type |-> "get_captures", card_id |-> cardId]

\* -------------------------------------------------------------------- Init
\* Module load: the initial values of stores/game.js and of ws.js.
Init ==
    /\ ws = 0
    /\ readyState = [c \in ConnIds |-> "NONE"]
    /\ myPlayerId = NoId
    /\ wsStatus = "disconnected"
    /\ gameState = Null
    /\ selectedCard = NoId
    /\ captureOptions = <<>>
    /\ capturesLoaded = FALSE
    /\ roundResult = Null
    /\ errorMessage = NoId
    /\ isWaiting = FALSE
    /\ opponentId = NoId
    /\ joinCode = NoId
    /\ isDealing = FALSE
    /\ roundNumber = 1
    /\ dealType = "full"
    /\ lastScopaBy = Null
    /\ pendingTableIds = {}
    /\ errTimers = 0
    /\ scopaTimers = <<>>
    /\ outbox = <<>>
    /\ asked = <<>>

\* What every step that is not a tap does to the board's local state and
\* to the outbox: nothing is handed to _send, and the board re-renders.
BoardAfter ==
    /\ outbox' = <<>>
    /\ pendingTableIds' =
          PendingAfter(pendingTableIds, selectedCard',
                       BoardMounted(wsStatus', isWaiting', gameState', isDealing'))

\* A step that is not a tap, in which the server takes up no request.
NoTap == BoardAfter /\ UNCHANGED asked

\* ------------------------------------------------------ connection manager
\* Mutant of Closed: connect() that forgets to close the prior socket.
ClosedNever(rs, c) == rs

\* WebSocket.close(): CONNECTING / OPEN become CLOSING, anything else stays.
Closed(rs, c) ==
    IF c # 0 /\ rs[c] \in {"CONNECTING", "OPEN"}
    THEN [rs EXCEPT ![c] = "CLOSING"] ELSE rs

\* The sockets created so far, and the one the next connect() creates.
Created == {c \in ConnIds : readyState[c] # "NONE"}
NewConn == Cardinality(Created) + 1

\* The body of connect(sessionId, playerId); it touches no identity store.
ConnectCall(pid) ==
    /\ Cardinality(Created) < MaxConnects
    /\ myPlayerId' = pid
    /\ readyState' = [Closed(readyState, ws) EXCEPT ![NewConn] = "CONNECTING"]
    /\ ws' = NewConn
    /\ wsStatus' = "connecting"
    /\ UNCHANGED <<gameState, selectedCard, captureOptions, capturesLoaded,
                   roundResult, errorMessage, isWaiting, opponentId, isDealing,
                   roundNumber, dealType, lastScopaBy, timerVars>>
    /\ NoTap

\* connect(sid, pid) called with the identity the stores already hold
Connect(pid) == ConnectCall(pid) /\ UNCHANGED joinCode

\* +page.svelte onMount after a page load: $playerId is null, the identity
\* is restored from sessionStorage (the join code only if one is stored),
\* then connect(sid, pid). No connect() precedes it: every connect() is
\* made with the id that onMount wrote to playerId.
onMount(pid, storedCode) ==
    /\ myPlayerId = NoId
    /\ joinCode' = IF storedCode # NoId THEN storedCode ELSE joinCode
    /\ ConnectCall(pid)

\* Mutant of Disconnect: a disconnect() that also clears the pending timers.
DisconnectCancelling ==
    /\ readyState' = Closed(readyState, ws)
    /\ ws' = 0
    /\ errTimers' = 0
    /\ scopaTimers' = <<>>
    /\ UNCHANGED <<myPlayerId, storeVars>>
    /\ NoTap

\* disconnect()
Disconnect ==
    /\ readyState' = Closed(readyState, ws)
    /\ ws' = 0
    /\ UNCHANGED <<myPlayerId, storeVars, timerVars>>
    /\ NoTap

\* _ws.onopen of socket c
OnOpen(c) ==
    /\ readyState[c] = "CONNECTING"
    /\ readyState' = [readyState EXCEPT ![c] = "OPEN"]
    /\ wsStatus' = "connected"
    /\ UNCHANGED <<ws, myPlayerId, gameState, selectedCard, captureOptions,
                   capturesLoaded, roundResult, errorMessage, isWaiting,
                   opponentId, joinCode, isDealing, roundNumber, dealType, lastScopaBy,
                   timerVars>>
    /\ NoTap

\* _ws.onerror of socket c: the connection failed; its close event follows.
OnError(c) ==
    /\ readyState[c] \in {"CONNECTING", "OPEN", "CLOSING"}
    /\ readyState' = [readyState EXCEPT ![c] = "FAILED"]
    /\ wsStatus' = "disconnected"
    /\ UNCHANGED <<ws, myPlayerId, gameState, selectedCard, captureOptions,
                   capturesLoaded, roundResult, errorMessage, isWaiting,
                   opponentId, joinCode, isDealing, roundNumber, dealType, lastScopaBy,
                   timerVars>>
    /\ NoTap

\* Mutant of OnClose: a close handler that reconnects on its own.
OnCloseRetrying(c) ==
    /\ readyState[c] \in {"OPEN", "CLOSING", "FAILED"}
    /\ IF c = ws /\ Cardinality(Created) < MaxConnects
       THEN /\ readyState' = [readyState EXCEPT ![c] = "CLOSED",
                                                ![NewConn] = "CONNECTING"]
            /\ ws' = NewConn
            /\ wsStatus' = "connecting"
       ELSE /\ readyState' = [readyState EXCEPT ![c] = "CLOSED"]
            /\ ws' = ws
            /\ wsStatus' = "disconnected"
    /\ UNCHANGED <<myPlayerId, gameState, selectedCard, captureOptions,
                   capturesLoaded, roundResult, errorMessage, isWaiting,
                   opponentId, joinCode, isDealing, roundNumber, dealType,
                   lastScopaBy, timerVars>>
    /\ NoTap

\* _ws.onclose of socket c
OnClose(c) ==
    /\ readyState[c] \in {"OPEN", "CLOSING", "FAILED"}
    /\ readyState' = [readyState EXCEPT ![c] = "CLOSED"]
    /\ wsStatus' = "disconnected"
    /\ UNCHANGED <<ws, myPlayerId, gameState, selectedCard, captureOptions,
                   capturesLoaded, roundResult, errorMessage, isWaiting,
                   opponentId, joinCode, isDealing, roundNumber, dealType, lastScopaBy,
                   timerVars>>
    /\ NoTap

\* ------------------------------------------------------ message dispatcher
\* _dispatch case 'waiting'
DispatchWaiting ==
    /\ isWaiting' = TRUE
    /\ wsStatus' = "waiting"
    /\ UNCHANGED <<gameState, selectedCard, captureOptions, capturesLoaded,
                   roundResult, errorMessage, opponentId, joinCode, isDealing,
                   roundNumber, dealType, lastScopaBy, timerVars>>

\* Mutant of HiddenBoard: game_started that keeps the old board.
HiddenBoardKept(gs) == gs

\* gameState.set(null)  -- hide board while dealing
HiddenBoard(gs) == Null

\* _dispatch case 'game_started'
DispatchGameStarted(msg) ==
    /\ isWaiting' = FALSE
    /\ wsStatus' = "connected"
    /\ opponentId' = IF msg.opponent_id # NoId THEN msg.opponent_id ELSE opponentId
    /\ roundNumber' = IF msg.round # 0 THEN msg.round ELSE roundNumber
    /\ selectedCard' = NoId
    /\ captureOptions' = <<>>
    /\ capturesLoaded' = FALSE
    /\ roundResult' = Null
    /\ gameState' = HiddenBoard(gameState)
    /\ dealType' = "full"
    /\ isDealing' = TRUE
    /\ UNCHANGED <<errorMessage, joinCode, lastScopaBy, timerVars>>

\* Mutant of DispatchCardsDealt: a refill that also takes the round result
\* off the screen.
DispatchCardsDealtClearing(msg) ==
    /\ roundNumber' = IF msg.round # 0 THEN msg.round ELSE roundNumber
    /\ selectedCard' = NoId
    /\ captureOptions' = <<>>
    /\ capturesLoaded' = FALSE
    /\ roundResult' = Null
    /\ dealType' = "hands"
    /\ isDealing' = TRUE
    /\ UNCHANGED <<wsStatus, gameState, errorMessage, isWaiting,
                   opponentId, joinCode, lastScopaBy, timerVars>>

\* _dispatch case 'cards_dealt'
DispatchCardsDealt(msg) ==
    /\ roundNumber' = IF msg.round # 0 THEN msg.round ELSE roundNumber
    /\ selectedCard' = NoId
    /\ captureOptions' = <<>>
    /\ capturesLoaded' = FALSE
    /\ dealType' = "hands"
    /\ isDealing' = TRUE
    /\ UNCHANGED <<wsStatus, gameState, roundResult, errorMessage, isWaiting,
                   opponentId, joinCode, lastScopaBy, timerVars>>

\* prev.players?.[pid]?.scopas ?? 0
OldScopas(prev, pid) ==
    LET at == {i \in DOMAIN prev.players : prev.players[i].pid = pid}
    IN  IF at = {} THEN 0 ELSE prev.players[CHOOSE i \in at : TRUE].scopas

\* Mutant of ScopaHits: the loop stops at the first player that scored.
ScopaHitsFirstOnly(prev, newState) ==
    IF Falsy(prev) THEN <<>>
    ELSE LET all == SelectSeq(newState.players,
                       LAMBDA pinfo : pinfo.scopas > OldScopas(prev, pinfo.pid))
         IN  IF all = <<>> THEN <<>> ELSE <<all[1]>>

\* Mutant of ScopaHits: the loop run after the replacement, the new state
\* compared with itself.
ScopaHitsAgainstNew(prev, newState) ==
    IF Falsy(prev) THEN <<>>
    ELSE SelectSeq(newState.players,
                   LAMBDA pinfo : pinfo.scopas > OldScopas(newState, pinfo.pid))

\* Mutant of ScopaHits: the loop without its "if (prev)" guard, a missing
\* previous state counting as zero scopas for everyone.
ScopaHitsUnguarded(prev, newState) ==
    SelectSeq(newState.players,
              LAMBDA pinfo : pinfo.scopas >
                    (IF Falsy(prev) THEN 0 ELSE OldScopas(prev, pinfo.pid)))

\* The scopa detection loop of case 'state': the entries of newState.players,
\* in order, whose scopas exceeds the previous count; none without a prev.
ScopaHits(prev, newState) ==
    IF Falsy(prev) THEN <<>>
    ELSE SelectSeq(newState.players,
                   LAMBDA pinfo : pinfo.scopas > OldScopas(prev, pinfo.pid))

\* Mutant of ScopaEvent: every scopa is shown as the local player's.
ScopaEventMine(pid) == [player_id |-> pid, is_mine |-> TRUE]

\* { player_id: pid, is_mine: pid === _myPlayerId }
ScopaEvent(pid) == [player_id |-> pid, is_mine |-> (pid = myPlayerId)]

\* Mutant of KeepsSelection: a state message that never clears the selection.
KeepsSelectionAlways(newState) == TRUE

\* If it is no longer our turn, clear pending selections
KeepsSelection(newState) == newState.is_human_turn

\* _dispatch case 'state' on a message without its state: with a prev,
\* newState.players throws before any store is written; without one, the
\* three sets run and newState.is_human_turn throws. onmessage catches both.
DispatchStateThrows ==
    IF Falsy(gameState)
    THEN /\ gameState' = Undefined
         /\ errorMessage' = NoId
         /\ roundResult' = Null
         /\ UNCHANGED <<wsStatus, selectedCard, captureOptions, capturesLoaded,
                        isWaiting, opponentId, joinCode, isDealing, roundNumber, dealType,
                        lastScopaBy, timerVars>>
    ELSE UNCHANGED <<storeVars, timerVars>>

\* _dispatch case 'state'
DispatchState(msg) ==
    IF msg.state = Undefined THEN DispatchStateThrows ELSE
    LET newState == msg.state
        hits == ScopaHits(gameState, newState)
    IN  /\ Len(scopaTimers) + Len(hits) <= MaxScopaTimers
        /\ lastScopaBy' = IF hits = <<>> THEN lastScopaBy
                          ELSE ScopaEvent(hits[Len(hits)].pid)
        /\ scopaTimers' = scopaTimers \o [i \in 1..Len(hits) |-> hits[i].pid]
        /\ gameState' = newState
        /\ errorMessage' = NoId
        /\ roundResult' = Null
        /\ IF KeepsSelection(newState)
           THEN UNCHANGED <<selectedCard, captureOptions, capturesLoaded>>
           ELSE /\ selectedCard' = NoId
                /\ captureOptions' = <<>>
                /\ capturesLoaded' = FALSE
        /\ UNCHANGED <<wsStatus, isWaiting, opponentId, joinCode, isDealing, roundNumber,
                       dealType, errTimers>>

\* _dispatch case 'captures'
DispatchCaptures(msg) ==
    /\ captureOptions' = msg.options
    /\ capturesLoaded' = TRUE
    /\ UNCHANGED <<wsStatus, gameState, selectedCard, roundResult, errorMessage,
                   isWaiting, opponentId, joinCode, isDealing, roundNumber, dealType,
                   lastScopaBy, timerVars>>

\* _dispatch case 'round_over'
DispatchRoundOver(msg) ==
    /\ roundResult' = msg
    /\ captureOptions' = <<>>
    /\ capturesLoaded' = FALSE
    /\ selectedCard' = NoId
    /\ UNCHANGED <<wsStatus, gameState, errorMessage, isWaiting, opponentId, joinCode,
                   isDealing, roundNumber, dealType, lastScopaBy, timerVars>>

\* Mutant of DispatchError: an error that also drops the selection.
DispatchErrorClearing(msg) ==
    /\ errTimers < MaxErrTimers
    /\ errorMessage' = msg.message
    /\ errTimers' = errTimers + 1
    /\ selectedCard' = NoId
    /\ captureOptions' = <<>>
    /\ capturesLoaded' = FALSE
    /\ UNCHANGED <<wsStatus, gameState, roundResult, isWaiting, opponentId,
                   joinCode, isDealing, roundNumber, dealType, lastScopaBy,
                   scopaTimers>>

\* _dispatch case 'error'
DispatchError(msg) ==
    /\ errTimers < MaxErrTimers
    /\ errorMessage' = msg.message
    /\ errTimers' = errTimers + 1
    /\ UNCHANGED <<wsStatus, gameState, selectedCard, captureOptions,
                   capturesLoaded, roundResult, isWaiting, opponentId, joinCode, isDealing,
                   roundNumber, dealType, lastScopaBy, scopaTimers>>

\* Mutant of DispatchOpponentDisconnected: the board is taken down with the
\* opponent.
DispatchOpponentDisconnectedClearing ==
    /\ wsStatus' = "disconnected"
    /\ errorMessage' = "Opponent disconnected."
    /\ gameState' = Null
    /\ UNCHANGED <<selectedCard, captureOptions, capturesLoaded,
                   roundResult, isWaiting, opponentId, joinCode, isDealing, roundNumber,
                   dealType, lastScopaBy, timerVars>>

\* _dispatch case 'opponent_disconnected'
DispatchOpponentDisconnected ==
    /\ wsStatus' = "disconnected"
    /\ errorMessage' = "Opponent disconnected."
    /\ UNCHANGED <<gameState, selectedCard, captureOptions, capturesLoaded,
                   roundResult, isWaiting, opponentId, joinCode, isDealing, roundNumber,
                   dealType, lastScopaBy, timerVars>>

\* Mutant of DispatchIgnored: a pong that dismisses the notices.
DispatchIgnoredDismissing ==
    /\ errorMessage' = NoId
    /\ roundResult' = Null
    /\ UNCHANGED <<wsStatus, gameState, selectedCard, captureOptions,
                   capturesLoaded, isWaiting, opponentId, joinCode, isDealing,
                   roundNumber, dealType, lastScopaBy, timerVars>>

\* _dispatch case 'pong' and default
DispatchIgnored == UNCHANGED <<storeVars, timerVars>>

\* _dispatch(msg)
Dispatch(msg) ==
    CASE msg.type = "waiting" -> DispatchWaiting
      [] msg.type = "game_started" -> DispatchGameStarted(msg)
      [] msg.type = "cards_dealt" -> DispatchCardsDealt(msg)
      [] msg.type = "state" -> DispatchState(msg)
      [] msg.type = "captures" -> DispatchCaptures(msg)
      [] msg.type = "round_over" -> DispatchRoundOver(msg)
      [] msg.type = "error" -> DispatchError(msg)
      [] msg.type = "opponent_disconnected" -> DispatchOpponentDisconnected
      [] OTHER -> DispatchIgnored

\* _ws.onmessage of socket c: a frame is delivered only while c is OPEN;
\* JSON.parse throws on a BadFrame and the catch leaves everything as it was.
Receive(c, frame) ==
    /\ readyState[c] = "OPEN"
    /\ IF frame = BadFrame THEN UNCHANGED <<storeVars, timerVars>>
       ELSE Dispatch(frame)
    /\ UNCHANGED connVars
    /\ BoardAfter

\* A frame from a server that answers in no particular discipline.
OnMessage(c, frame) == Receive(c, frame) /\ UNCHANGED asked

\* Mutant of ErrTimerFire: a callback that runs without clearing the store.
ErrTimerFireKeeping ==
    /\ errTimers > 0
    /\ errTimers' = errTimers - 1
    /\ UNCHANGED <<connVars, storeVars, scopaTimers>>
    /\ NoTap

\* The timer callbacks of case 'error' and of case 'state'. Timers of equal
\* delay run in the order they were scheduled.
ErrTimerFire ==
    /\ errTimers > 0
    /\ errTimers' = errTimers - 1
    /\ errorMessage' = NoId
    /\ UNCHANGED <<connVars, wsStatus, gameState, selectedCard, captureOptions,
                   capturesLoaded, roundResult, isWaiting, opponentId, joinCode, isDealing,
                   roundNumber, dealType, lastScopaBy, scopaTimers>>
    /\ NoTap

ScopaTimerFire ==
    /\ scopaTimers # <<>>
    /\ scopaTimers' = Tail(scopaTimers)
    /\ lastScopaBy' = Null
    /\ UNCHANGED <<connVars, wsStatus, gameState, selectedCard, captureOptions,
                   capturesLoaded, roundResult, errorMessage, isWaiting,
                   opponentId, joinCode, isDealing, roundNumber, dealType, errTimers>>
    /\ NoTap

\* +page.svelte: <DealAnimation on:done={() => isDealing.set(false)} />,
\* rendered in the active-game branch while $isDealing.
DealDone ==
    /\ isDealing
    /\ wsStatus # "connecting"
    /\ ~(wsStatus = "waiting" \/ isWaiting)
    /\ ~(wsStatus = "disconnected" /\ Falsy(gameState))
    /\ isDealing' = FALSE
    /\ UNCHANGED <<connVars, wsStatus, gameState, selectedCard, captureOptions,
                   capturesLoaded, roundResult, errorMessage, isWaiting,
                   opponentId, joinCode, roundNumber, dealType, lastScopaBy, timerVars>>
    /\ NoTap

\* -------------------------------------------------------- capture selector
tapFrame == <<connVars, wsStatus, gameState, roundResult, errorMessage,
              isWaiting, opponentId, joinCode, isDealing, roundNumber, dealType,
              lastScopaBy, timerVars>>

\* Mutant of executePlay: a play that leaves the loaded options in place.
executePlayKeepingOptions(cardId, captIds) ==
    /\ outbox' = Send(PlayMsg(cardId, captIds))
    /\ selectedCard' = NoId
    /\ pendingTableIds' = {}
    /\ UNCHANGED <<captureOptions, capturesLoaded>>

\* GameBoard.svelte executePlay(cardId, captIds)
executePlay(cardId, captIds) ==
    /\ outbox' = Send(PlayMsg(cardId, captIds))
    /\ selectedCard' = NoId
    /\ captureOptions' = <<>>
    /\ capturesLoaded' = FALSE
    /\ pendingTableIds' = {}

\* GameBoard.svelte cancelSelection()
cancelSelection ==
    /\ outbox' = <<>>
    /\ selectedCard' = NoId
    /\ captureOptions' = <<>>
    /\ capturesLoaded' = FALSE
    /\ pendingTableIds' = {}

\* A handler that returns early.
Ignored ==
    /\ outbox' = <<>>
    /\ UNCHANGED <<selectedCard, captureOptions, capturesLoaded, pendingTableIds>>

\* Mutant of SecondTapDiscards: a second tap that always deselects.
SecondTapNever(opts) == FALSE

\* Mutant of SecondTapDiscards: a second tap that always discards.
SecondTapAlways(opts) == TRUE

\* handleHandCard: "if ($captureOptions.length === 0)" on a second tap
SecondTapDiscards(opts) == Len(opts) = 0

\* GameBoard.svelte handleHandCard(card), card a card of the rendered hand
handleHandCardCall(card) ==
    /\ CardsRendered
    /\ UNCHANGED tapFrame
    /\ IF ~isMyTurn(gameState) THEN Ignored
       ELSE IF selectedCard = card
            THEN IF SecondTapDiscards(captureOptions)
                 THEN executePlay(card, <<>>)
                 ELSE cancelSelection
       ELSE /\ selectedCard' = card
            /\ captureOptions' = <<>>
            /\ capturesLoaded' = FALSE
            /\ pendingTableIds' = {}
            /\ outbox' = Send(GetCapturesMsg(card))

\* A hand tap whose request, if any, the server is not held to answer.
handleHandCard(card) == handleHandCardCall(card) /\ UNCHANGED asked

\* Mutant of Toggle: a tap that only ever adds the card.
ToggleAddOnly(p, id) == p \cup {id}

\* handleTableCard: toggle this card in the pending set
Toggle(p, id) == IF id \in p THEN p \ {id} ELSE p \cup {id}

\* Mutant of Matches: the match without the length test.
MatchesSubset(opt, p) == p \subseteq Range(opt)

\* handleTableCard: opt.length === pendingArr.length &&
\*                  pendingArr.every(id => opt.includes(id))
Matches(opt, p) == Len(opt) = Cardinality(p) /\ p \subseteq Range(opt)

\* Mutant of ExactMatch: only the first option is compared.
ExactMatchFirstOnly(opts, p) ==
    IF opts # <<>> /\ Len(opts[1]) = Cardinality(p) /\ p \subseteq Range(opts[1])
    THEN 1 ELSE 0

\* $captureOptions.find(...): the index of the first matching option, 0 if none
ExactMatch(opts, p) ==
    LET hit == {i \in DOMAIN opts : Matches(opts[i], p)}
    IN  IF hit = {} THEN 0 ELSE CHOOSE i \in hit : \A j \in hit : i <= j

\* Mutant of TableTapAccepted: a tap accepted on any table card.
TableTapAcceptedAny(card) == selectedCard # NoId /\ isMyTurn(gameState)

\* handleTableCard: the two early returns
TableTapAccepted(card) ==
    /\ selectedCard # NoId /\ isMyTurn(gameState)
    /\ card \in capturableIds(captureOptions) \/ card \in pendingTableIds

\* GameBoard.svelte handleTableCard(card), card a card of the rendered table
handleTableCard(card) ==
    /\ CardsRendered
    /\ UNCHANGED <<tapFrame, asked>>
    /\ IF ~TableTapAccepted(card) THEN Ignored
       ELSE LET next == Toggle(pendingTableIds, card)
                m == ExactMatch(captureOptions, next)
            IN  IF m # 0
                THEN executePlay(selectedCard, captureOptions[m])
                ELSE /\ pendingTableIds' = next
                     /\ outbox' = <<>>
                     /\ UNCHANGED <<selectedCard, captureOptions, capturesLoaded>>

\* The cancel button of the capture hint strip:
\* {#if $selectedCard && isMyTurnNow} ... on:click={cancelSelection}
CancelTap ==
    /\ CardsRendered
    /\ selectedCard # NoId /\ isMyTurn(gameState)
    /\ UNCHANGED <<tapFrame, asked>>
    /\ cancelSelection

\* -------------------------------------------------------------------- Next
Next ==
    \/ \E pid \in PlayerIds : Connect(pid)
    \/ Disconnect
    \/ \E c \in ConnIds : OnOpen(c)
    \/ \E c \in ConnIds : OnError(c)
    \/ \E c \in ConnIds : OnClose(c)
    \/ \E c \in ConnIds, frame \in Messages \cup {BadFrame} : OnMessage(c, frame)
    \/ ErrTimerFire
    \/ ScopaTimerFire
    \/ DealDone
    \/ \E card \in HandIds : handleHandCard(card)
    \/ \E card \in TableIds : handleTableCard(card)
    \/ CancelTap

\* The client under every input of the value space above. Its state space is
\* the product of the board, the scopa bookkeeping and the timers; the
\* specifications below restrict the inputs to one of these at a time.
Spec == Init /\ [][Next]_vars

\* The board's environment: every connection event, every message type that
\* touches the turn, the selection or the status, and every tap. Left out are
\* the 'error' message, the scopa counts of the state payload and the two
\* timers, which write only errorMessage and lastScopaBy.
BoardFrames ==
    {[type |-> "waiting"], [type |-> "opponent_disconnected"],
     [type |-> "pong"], [type |-> "bogus"], RoundOverPayload, BadFrame,
     [type |-> "game_started", opponent_id |-> "B", round |-> 0],
     [type |-> "cards_dealt", round |-> 0],
     [type |-> "state", state |-> Undefined]}
    \cup {[type |-> "state", state |-> [is_human_turn |-> t, players |-> <<>>]] :
             t \in BOOLEAN}
    \cup {[type |-> "captures", options |-> o] : o \in OptionLists}

NextBoard ==
    \/ \E pid \in {"A"} : Connect(pid)
    \/ Disconnect
    \/ \E c \in ConnIds : OnOpen(c)
    \/ \E c \in ConnIds : OnError(c)
    \/ \E c \in ConnIds : OnClose(c)
    \/ \E c \in ConnIds, frame \in BoardFrames : OnMessage(c, frame)
    \/ DealDone
    \/ \E card \in HandIds : handleHandCard(card)
    \/ \E card \in TableIds : handleTableCard(card)
    \/ CancelTap

SpecBoard == Init /\ [][NextBoard]_vars

\* The scopa detector's environment: one connection made with either player
\* id, its transport events, game_started and every state payload of the
\* opponent's turn (count changes for either, both or no player, players
\* missing from either side), and the expiry of the notification timers.
\* No taps, no 'error' message.
EventFrames ==
    {[type |-> "game_started", opponent_id |-> "B", round |-> 0]}
    \cup {[type |-> "state", state |-> st] :
             st \in {x \in StatePayloads : ~x.is_human_turn} \cup {Undefined}}

NextEvents ==
    \/ \E pid \in PlayerIds : Created = {} /\ Connect(pid)
    \/ \E c \in ConnIds : OnOpen(c)
    \/ \E c \in ConnIds : OnClose(c)
    \/ \E c \in ConnIds, frame \in EventFrames : OnMessage(c, frame)
    \/ ScopaTimerFire
    \/ DealDone

SpecEvents == Init /\ [][NextEvents]_vars

\* The lobby's environment: one page load that restores the identity (with
\* or without a stored join code) and connects, the transport events, and
\* the messages that move the session between waiting, playing and
\* opponent-gone.
LobbyFrames ==
    {[type |-> "waiting"], [type |-> "opponent_disconnected"],
     [type |-> "game_started", opponent_id |-> "B", round |-> 0],
     [type |-> "state", state |-> [is_human_turn |-> TRUE, players |-> <<>>]]}

NextLobby ==
    \/ \E pid \in PlayerIds, code \in JoinCodes \cup {NoId} : onMount(pid, code)
    \/ Disconnect
    \/ \E c \in ConnIds : OnOpen(c)
    \/ \E c \in ConnIds : OnError(c)
    \/ \E c \in ConnIds : OnClose(c)
    \/ \E c \in ConnIds, frame \in LobbyFrames : OnMessage(c, frame)
    \/ DealDone

SpecLobby == Init /\ [][NextLobby]_vars

\* A turn in play over one connection: the state, captures and round_over
\* messages that build and end a selection (late captures included), the
\* 'error' message and its timer, and every tap.
TurnFrames ==
    {[type |-> "error", message |-> "illegal"], RoundOverPayload,
     [type |-> "opponent_disconnected"]}
    \cup {[type |-> "state", state |-> [is_human_turn |-> t, players |-> <<>>]] :
             t \in BOOLEAN}
    \cup {[type |-> "captures", options |-> o] : o \in OptionLists}

NextTurn ==
    \/ \E pid \in {"A"} : Created = {} /\ Connect(pid)
    \/ \E c \in ConnIds : OnOpen(c)
    \/ \E c \in ConnIds : OnClose(c)
    \/ \E c \in ConnIds, frame \in TurnFrames : OnMessage(c, frame)
    \/ ErrTimerFire
    \/ \E card \in HandIds : handleHandCard(card)
    \/ \E card \in TableIds : handleTableCard(card)
    \/ CancelTap

SpecTurn == Init /\ [][NextTurn]_vars

\* A whole session over one connection: every message type the dispatcher
\* knows (scopa counts aside), frames it cannot decode or cannot finish, the
\* error timer, the deal animation and every tap.
SessionFrames == BoardFrames \cup {[type |-> "error", message |-> "illegal"]}

NextSession ==
    \/ \E pid \in {"A"} : Created = {} /\ Connect(pid)
    \/ \E c \in ConnIds : OnOpen(c)
    \/ \E c \in ConnIds : OnClose(c)
    \/ \E c \in ConnIds, frame \in SessionFrames : OnMessage(c, frame)
    \/ ErrTimerFire
    \/ DealDone
    \/ \E card \in HandIds : handleHandCard(card)
    \/ \E card \in TableIds : handleTableCard(card)
    \/ CancelTap

SpecSession == Init /\ [][NextSession]_vars

\* The timers' environment: one connection, the 'error' message and state
\* messages in which A's scopas goes up and down, disconnect(), and the two
\* timer callbacks. The browser runs every scheduled callback once its delay
\* is over, whatever else happens: weak fairness on both.
TimerFrames ==
    {[type |-> "error", message |-> "illegal"]}
    \cup {[type |-> "state",
           state |-> [is_human_turn |-> FALSE,
                      players |-> <<[pid |-> "A", scopas |-> n]>>]] :
             n \in 0..MaxScopas}

NextTimers ==
    \/ \E pid \in {"A"} : Created = {} /\ Connect(pid)
    \/ Disconnect
    \/ \E c \in ConnIds : OnOpen(c)
    \/ \E c \in ConnIds : OnClose(c)
    \/ \E c \in ConnIds, frame \in TimerFrames : OnMessage(c, frame)
    \/ ErrTimerFire
    \/ ScopaTimerFire

SpecTimers ==
    Init /\ [][NextTimers]_vars /\ WF_vars(ErrTimerFire) /\ WF_vars(ScopaTimerFire)

\* A server that keeps the protocol's discipline: it answers every
\* get_captures frame it received with one captures message, in the order
\* of the requests, with the legal captures of the card asked about. On this
\* table h1 captures c1, and h2 captures c2 and c3 together.
CapturesFor(cardId) ==
    IF cardId = "h1" THEN << <<"c1">> >> ELSE << <<"c2", "c3">> >>

\* A hand tap; a get_captures frame that went out reaches the server.
Ask(card) ==
    /\ handleHandCardCall(card)
    /\ asked' = IF /\ outbox' # <<>>
                   /\ outbox'[1].msg.type = "get_captures"
                   /\ outbox'[1].sent
                THEN Append(asked, outbox'[1].msg.card_id) ELSE asked
    /\ Len(asked') <= MaxAsked

\* The server's answer to the oldest request reaches the client.
Answer(c) ==
    /\ asked # <<>>
    /\ Receive(c, [type |-> "captures", options |-> CapturesFor(Head(asked))])
    /\ asked' = Tail(asked)

\* Play against the disciplined server over one connection: state messages
\* of either turn, the answers to the requests, and every tap.
AnswerFrames ==
    {[type |-> "state", state |-> [is_human_turn |-> t, players |-> <<>>]] :
        t \in BOOLEAN}

NextAnswers ==
    \/ \E pid \in {"A"} : Created = {} /\ Connect(pid)
    \/ \E c \in ConnIds : OnOpen(c)
    \/ \E c \in ConnIds : OnClose(c)
    \/ \E c \in ConnIds, frame \in AnswerFrames : OnMessage(c, frame)
    \/ \E c \in ConnIds : Answer(c)
    \/ \E card \in HandIds : Ask(card)
    \/ \E card \in TableIds : handleTableCard(card)
    \/ CancelTap

SpecAnswers == Init /\ [][NextAnswers]_vars

\* ================================================================== claims
\* The pending set a tap on `card` produces, and what "InteractionState is
\* cleared" means for the state a step ends in.
Toggled(card) == (pendingTableIds \ {card}) \cup ({card} \ pendingTableIds)
SetEqualOption(p) == {i \in DOMAIN captureOptions : Range(captureOptions[i]) = p}
TapTakesEffect(card) ==
    /\ selectedCard # NoId
    /\ ~Falsy(gameState) /\ gameState.is_human_turn
    /\ \/ \E i \in DOMAIN captureOptions : card \in Range(captureOptions[i])
       \/ card \in pendingTableIds
InteractionCleared ==
    /\ selectedCard = NoId
    /\ captureOptions = <<>>
    /\ pendingTableIds = {}
    /\ capturesLoaded = FALSE
IsPlay(entry) == entry.msg.type = "play"

\* C1: a table tap made with a hand card selected on the local turn, whose
\* resulting pending set equals some capture option as a set, hands exactly
\* one play to the connection in that step, with the selected card's id and
\* that option's ids, and ends with the interaction state cleared.
C1_ExactMatchExecutesOnePlay ==
    [][\A card \in TableIds :
          (TapTakesEffect(card) /\ SetEqualOption(Toggled(card)) # {}
              /\ handleTableCard(card))
          => /\ Len(outbox') = 1
             /\ outbox'[1].msg.type = "play"
             /\ outbox'[1].msg.card_id = selectedCard
             /\ \E i \in SetEqualOption(Toggled(card)) :
                   outbox'[1].msg.capture_ids = captureOptions[i]
             /\ InteractionCleared']_vars

\* A two-card option completed by two taps has just been played.
C1_Witness ==
    /\ Len(outbox) = 1 /\ IsPlay(outbox[1])
    /\ outbox[1].msg.capture_ids \in {<<"c1", "c2">>, <<"c2", "c1">>}
    /\ InteractionCleared

C3_PendingWithinOptions ==
    pendingTableIds \subseteq UNION {Range(captureOptions[i]) : i \in DOMAIN captureOptions}

\* The frames after which it is not the local turn because the frame says
\* so: a state whose is_human_turn is false, and game_started.
StateFrames(turn) ==
    {f \in BoardFrames :
        f # BadFrame /\ f.type = "state" /\ f.state # Undefined
                     /\ f.state.is_human_turn = turn}
GameStartedFrames == {f \in BoardFrames : f # BadFrame /\ f.type = "game_started"}
Deliverable(frames) == ws # 0 /\ \E f \in frames : ENABLED OnMessage(ws, f)

\* C4: selectedCard is non-null only while an authoritative state exists and
\* says it is the local turn; a state message with is_human_turn false and a
\* game_started message leave selectedCard null, captureOptions empty and
\* pendingTableIds empty.
C4_SelectionOnlyOnLocalTurn ==
    /\ [](selectedCard # NoId => (~Falsy(gameState) /\ gameState.is_human_turn))
    /\ [][(selectedCard' # NoId \/ captureOptions' # <<>> \/ pendingTableIds' # {})
           => \A c \in ConnIds, f \in StateFrames(FALSE) \cup GameStartedFrames :
                 ~OnMessage(c, f)]_vars

\* A card is selected with its options loaded while a message that ends the
\* local turn can be delivered.
C4_Witness ==
    /\ selectedCard # NoId /\ captureOptions # <<>> /\ capturesLoaded
    /\ Deliverable(StateFrames(FALSE)) /\ Deliverable(GameStartedFrames)

\* C5: a state message with is_human_turn false, processed while a capture
\* combination is partially selected (pendingTableIds non-empty and equal to
\* no option), clears selectedCard, pendingTableIds, captureOptions and
\* capturesLoaded.
C5_TurnLossClearsPartialSelection ==
    [][\A c \in ConnIds, f \in StateFrames(FALSE) :
          (OnMessage(c, f) /\ pendingTableIds # {}
                           /\ SetEqualOption(pendingTableIds) = {})
          => InteractionCleared']_vars

\* One card of a two-card option is pending when the turn-ending state can
\* be delivered.
C5_Witness ==
    /\ selectedCard # NoId
    /\ Cardinality(pendingTableIds) = 1
    /\ SetEqualOption(pendingTableIds) = {}
    /\ \E i \in DOMAIN captureOptions :
          pendingTableIds \subseteq Range(captureOptions[i])
    /\ Deliverable(StateFrames(FALSE))

\* C6: at most one WebSocket is connecting or open at any time.
Live == {c \in ConnIds : readyState[c] \in {"CONNECTING", "OPEN"}}
C6_AtMostOneLiveConnection == Cardinality(Live) <= 1

\* connect() was called over a socket that has not closed yet.
C6_Witness ==
    /\ ws = 2
    /\ readyState[1] = "CLOSING"
    /\ readyState[2] \in {"CONNECTING", "OPEN"}

\* C7: a frame is transmitted only while wsStatus is 'connected'.
C7_TransmitsOnlyWhenConnected ==
    \A i \in DOMAIN outbox : outbox[i].sent => wsStatus = "connected"

\* C8: from the return of disconnect() to the next connect(), that is while
\* _ws is null, wsStatus is 'disconnected'.
C8_DisconnectLeavesDisconnected == ws = 0 => wsStatus = "disconnected"

\* C9: game_started clears selectedCard, captureOptions, capturesLoaded and
\* roundResult, sets gameState to null, wsStatus to 'connected' and isWaiting
\* to false; and a null gameState is replaced only by a state message.
C9_GameStartedResets ==
    /\ [][\A c \in ConnIds, f \in GameStartedFrames :
             OnMessage(c, f)
             => /\ selectedCard' = NoId
                /\ captureOptions' = <<>>
                /\ capturesLoaded' = FALSE
                /\ roundResult' = Null
                /\ gameState' = Null
                /\ wsStatus' = "connected"
                /\ isWaiting' = FALSE]_vars
    /\ [][(gameState = Null /\ gameState' # Null)
             => \E c \in ConnIds, f \in BoardFrames :
                   f # BadFrame /\ f.type = "state" /\ OnMessage(c, f)]_vars

\* game_started can arrive over a board with a selection, loaded options
\* and a round result.
C9_Witness ==
    /\ selectedCard # NoId /\ captureOptions # <<>>
    /\ roundResult # Null /\ ~Falsy(gameState)
    /\ Deliverable(GameStartedFrames)

\* C10: a tap on the selected hand card on the local turn, with
\* captureOptions empty, hands exactly one play {card_id, capture_ids: []}
\* to the connection and clears the interaction state, whether capturesLoaded
\* is true or false.
C10_SecondTapDiscards ==
    [][\A card \in HandIds :
          (handleHandCard(card) /\ ~Falsy(gameState) /\ gameState.is_human_turn
              /\ selectedCard = card /\ captureOptions = <<>>)
          => /\ Len(outbox') = 1
             /\ outbox'[1].msg =
                   [type |-> "play", card_id |-> card, capture_ids |-> <<>>]
             /\ InteractionCleared']_vars

\* A discard has just been played.
C10_Witness ==
    /\ Len(outbox) = 1 /\ IsPlay(outbox[1])
    /\ outbox[1].msg.capture_ids = <<>>
    /\ outbox[1].msg.card_id \in HandIds
    /\ InteractionCleared

\* C11: a tap on the selected hand card on the local turn, with
\* captureOptions non-empty, cancels the selection: selectedCard,
\* captureOptions, pendingTableIds and capturesLoaded are cleared and nothing
\* is handed to the connection, neither a play nor a get_captures.
C11_SecondTapCancels ==
    [][\A card \in HandIds :
          (handleHandCard(card) /\ ~Falsy(gameState) /\ gameState.is_human_turn
              /\ selectedCard = card /\ captureOptions # <<>>)
          => /\ outbox' = <<>>
             /\ InteractionCleared']_vars

\* A card is selected with options loaded and a table card pending, and
\* the tap on that hand card is possible and cancels.
C11_Witness ==
    /\ selectedCard \in HandIds /\ captureOptions # <<>>
    /\ pendingTableIds # {}
    /\ ~Falsy(gameState) /\ gameState.is_human_turn
    /\ ENABLED (handleHandCard(selectedCard) /\ outbox' = <<>>
                   /\ selectedCard' = NoId /\ pendingTableIds' = {})

\* A tap on table card `card`, made now, is possible and leaves
\* pendingTableIds equal to b.
TapYields(card, b) == ENABLED (handleTableCard(card) /\ pendingTableIds' = b)

\* C12 as stated: whenever a tap on a table card takes effect, whether or
\* not it completes an option, a second tap on the same card right after it
\* leaves pendingTableIds as it was before the first.
C12_DoubleToggleRestores ==
    [][\A card \in TableIds :
          (handleTableCard(card) /\ TapTakesEffect(card))
          => \E b \in SUBSET TableIds :
                b = pendingTableIds /\ TapYields(card, b)']_vars

\* C12, amended: when the card belongs to some capture option and neither
\* the set after the first tap nor the set before it is set-equal to a
\* capture option, a second tap on the same card right after the first leaves
\* pendingTableIds as it was before the first.
C12_DoubleToggleRestoresUnlessMatch ==
    [][\A card \in TableIds :
          (handleTableCard(card) /\ TapTakesEffect(card)
              /\ (\E i \in DOMAIN captureOptions : card \in Range(captureOptions[i]))
              /\ SetEqualOption(Toggled(card)) = {}
              /\ SetEqualOption(pendingTableIds) = {})
          => \E b \in SUBSET TableIds :
                b = pendingTableIds /\ TapYields(card, b)']_vars

\* A first tap has put a card into the pending set without completing an
\* option, and the second tap on it takes it out again.
C12_Witness ==
    /\ selectedCard # NoId /\ outbox = <<>>
    /\ \E card \in pendingTableIds :
          /\ SetEqualOption(pendingTableIds) = {}
          /\ SetEqualOption(pendingTableIds \ {card}) = {}
          /\ TapYields(card, pendingTableIds \ {card})

\* The players a state lists and the scopas count it gives one of them; the
\* players listed before and after whose count went up; and the timers a
\* step schedules, that is the owners of the events it sets, in order.
PidsOf(gs) == IF Falsy(gs) THEN {} ELSE {gs.players[i].pid : i \in DOMAIN gs.players}
CountOf(gs, pid) ==
    gs.players[CHOOSE i \in DOMAIN gs.players : gs.players[i].pid = pid].scopas
Increased(prev, new) ==
    {pid \in PidsOf(prev) \cap PidsOf(new) : CountOf(new, pid) > CountOf(prev, pid)}
NewTimers == SubSeq(scopaTimers', Len(scopaTimers) + 1, Len(scopaTimers'))
ScopaFrames == {f \in EventFrames : f.type = "state" /\ f.state # Undefined}

\* C13: a state message processed over a previous state that lists the same
\* players, in which exactly one player's scopas went up, sets exactly one
\* lastScopaBy event: its owner is that player, its is_mine flag holds
\* exactly when the owner is the player id given to connect(), and one
\* clearing timer is scheduled for it.
C13_OneIncreaseOneEvent ==
    [][\A c \in ConnIds, f \in ScopaFrames :
          (gameState' = f.state /\ OnMessage(c, f) /\ ~Falsy(gameState)
              /\ PidsOf(f.state) \subseteq PidsOf(gameState)
              /\ Cardinality(Increased(gameState, f.state)) = 1)
          => \A pid \in Increased(gameState, f.state) :
                /\ NewTimers = <<pid>>
                /\ lastScopaBy' = [player_id |-> pid,
                                   is_mine |-> (pid = myPlayerId)]]_vars

\* The opponent's scopa is on display, not as the local player's, and its
\* timer is the only one pending.
C13_Witness ==
    /\ myPlayerId = "A"
    /\ lastScopaBy = [player_id |-> "B", is_mine |-> FALSE]
    /\ scopaTimers = <<"B">>
    /\ PidsOf(gameState) = PlayerIds
    /\ CountOf(gameState, "B") = 1 /\ CountOf(gameState, "A") = 0

\* C14: a state message in which the scopas of both players went up sets
\* two lastScopaBy events, one owned by each player, each with its own
\* clearing timer; the one left on display is the later of the two.
C14_BothIncreaseTwoEvents ==
    [][\A c \in ConnIds, f \in ScopaFrames :
          (gameState' = f.state /\ OnMessage(c, f)
              /\ Increased(gameState, f.state) = PlayerIds)
          => /\ Len(NewTimers) = 2
             /\ Range(NewTimers) = PlayerIds
             /\ lastScopaBy' = [player_id |-> NewTimers[2],
                                is_mine |-> (NewTimers[2] = myPlayerId)]]_vars

\* Both players have just scored in one message: two timers, one each.
C14_Witness ==
    /\ Len(scopaTimers) = 2 /\ Range(scopaTimers) = PlayerIds
    /\ PidsOf(gameState) = PlayerIds
    /\ \A pid \in PlayerIds : CountOf(gameState, pid) = 1
    /\ lastScopaBy # Null /\ lastScopaBy.player_id = scopaTimers[2]

\* C15: a state message sets events only for players listed both in the
\* previous state and in the new one.
C15_EventsOnlyForKnownPlayers ==
    [][\A c \in ConnIds, f \in ScopaFrames :
          (gameState' = f.state /\ OnMessage(c, f))
          => Range(NewTimers) \subseteq PidsOf(gameState) \cap PidsOf(f.state)]_vars

\* C16: a state message processed while gameState is null sets no event and
\* schedules no timer, whatever counts it carries.
C16_NoEventWithoutPrev ==
    [][\A c \in ConnIds, f \in ScopaFrames :
          (gameState = Null /\ gameState' = f.state /\ OnMessage(c, f))
          => (lastScopaBy' = lastScopaBy /\ scopaTimers' = scopaTimers)]_vars

\* After game_started has hidden the board, a state in which both players
\* already have a scopa is processed and produces nothing.
C16_Witness ==
    /\ gameState = Null /\ isDealing /\ ws # 0
    /\ \E f \in ScopaFrames :
          /\ PidsOf(f.state) = PlayerIds
          /\ \A pid \in PlayerIds : CountOf(f.state, pid) = 1
          /\ ENABLED (OnMessage(ws, f) /\ lastScopaBy' = lastScopaBy
                         /\ scopaTimers' = scopaTimers)

\* C17: once a game_started has been processed in 'waiting' status, the
\* session has left 'waiting' and joinCode is null.
C17_JoinCodeClearedAfterWaiting ==
    [][\A c \in ConnIds, f \in LobbyFrames :
          (OnMessage(c, f) /\ f.type = "game_started" /\ wsStatus = "waiting")
          => joinCode' = NoId]_vars

\* C18: there is no automatic reconnection. While the current socket has
\* failed or closed, wsStatus is 'disconnected'; and a socket is created by
\* no step other than a call of connect().
C18_NoAutomaticReconnect ==
    /\ []((ws # 0 /\ readyState[ws] \in {"FAILED", "CLOSED"})
            => wsStatus = "disconnected")
    /\ [][Created' # Created => \E pid \in PlayerIds : Connect(pid)]_vars

\* The current socket has closed over a board in play, and connect() could
\* still be called.
C18_Witness ==
    /\ ws # 0 /\ readyState[ws] = "CLOSED"
    /\ wsStatus = "disconnected" /\ ~Falsy(gameState)
    /\ Cardinality(Created) < MaxConnects

\* C19: with a single connect() in the run, from the processing of
\* opponent_disconnected on (its notice still in errorMessage) wsStatus is
\* 'disconnected', whatever message or transport event comes next.
C19_OpponentDisconnectedIsTerminal ==
    errorMessage = "Opponent disconnected." => wsStatus = "disconnected"

\* C20: processing an 'error' message sets errorMessage and schedules its
\* clearing, and leaves gameState, selectedCard, captureOptions,
\* pendingTableIds, capturesLoaded, roundResult and wsStatus unchanged.
C20_ErrorTouchesOnlyNotification ==
    [][\A c \in ConnIds, f \in TurnFrames :
          (OnMessage(c, f) /\ f.type = "error")
          => /\ errorMessage' = f.message
             /\ errTimers' = errTimers + 1
             /\ UNCHANGED <<gameState, selectedCard, captureOptions,
                            pendingTableIds, capturesLoaded, roundResult,
                            wsStatus>>]_vars

\* An error is on display, its timer pending, over a selection with loaded
\* options, a pending table card and a round result.
C20_Witness ==
    /\ errorMessage = "illegal" /\ errTimers > 0
    /\ selectedCard # NoId /\ captureOptions # <<>> /\ capturesLoaded
    /\ pendingTableIds # {} /\ roundResult # Null
    /\ wsStatus = "connected"

\* C21: a pong message and a message of an unrecognized type leave every
\* store, the board's pending set and the timers unchanged, and hand nothing
\* to the connection.
IgnoredFrames == {[type |-> "pong"], [type |-> "bogus"]}
C21_PongAndUnknownChangeNothing ==
    [][\A c \in ConnIds, f \in IgnoredFrames :
          OnMessage(c, f)
          => /\ UNCHANGED <<storeVars, timerVars, pendingTableIds>>
             /\ outbox' = <<>>]_vars

\* A pong or an unknown message can arrive over an error notice, a round
\* result and a selection with a pending table card.
C21_Witness ==
    /\ errorMessage # NoId /\ roundResult # Null
    /\ selectedCard # NoId /\ captureOptions # <<>> /\ pendingTableIds # {}
    /\ Deliverable(IgnoredFrames)

\* C22: a frame that cannot be decoded, and a state message without its
\* state payload, leave every store with the value it had.
MalformedFrames == {BadFrame, [type |-> "state", state |-> Undefined]}
C22_MalformedFramesChangeNothing ==
    [][\A c \in ConnIds, f \in MalformedFrames :
          OnMessage(c, f) => UNCHANGED storeVars]_vars

\* C23: in every reachable state, captureOptions non-empty or
\* capturesLoaded true implies that a hand card is selected on the local
\* turn.
C23_OptionsOnlyWithSelection ==
    (captureOptions # <<>> \/ capturesLoaded)
    => (selectedCard # NoId /\ ~Falsy(gameState) /\ gameState.is_human_turn)

\* The messages that start a round or carry a state, by type.
IsGameStarted(f) == f # BadFrame /\ f.type = "game_started"
IsState(f) == f # BadFrame /\ f.type = "state"

C25_RoundOverFreezesInteraction ==
    /\ [][\A c \in ConnIds :
             OnMessage(c, RoundOverPayload)
             => (selectedCard' = NoId /\ captureOptions' = <<>>
                                      /\ capturesLoaded' = FALSE)]_vars
    /\ [][(roundResult # Null
             /\ \/ \E card \in HandIds : handleHandCard(card)
                \/ \E card \in TableIds : handleTableCard(card))
          => /\ outbox' = <<>>
             /\ UNCHANGED <<selectedCard, captureOptions, capturesLoaded,
                            pendingTableIds>>]_vars

\* C26: after a state message with a payload is processed gameState equals
\* the payload exactly; and the events of that message are those of the
\* players whose scopas in the payload exceeds their scopas in the state held
\* before the message (stated where that state lists every player of the
\* payload).
C26_StateReplacedAfterDiff ==
    [][\A c \in ConnIds, f \in ScopaFrames :
          OnMessage(c, f)
          => /\ gameState' = f.state
             /\ PidsOf(f.state) \subseteq PidsOf(gameState)
                   => Range(NewTimers) = Increased(gameState, f.state)]_vars

\* The state held is a payload that lists only A, with a scopa, and A's
\* event is on display with its timer pending.
C26_Witness ==
    /\ ~Falsy(gameState) /\ PidsOf(gameState) = {"A"}
    /\ CountOf(gameState, "A") = 1
    /\ lastScopaBy # Null /\ lastScopaBy.player_id = "A"
    /\ scopaTimers = <<"A">>

\* C27: a tap on a hand card while it is not the local turn changes nothing
\* and hands nothing to the connection; on the local turn, a tap on a card
\* other than the selected one sets selectedCard to it, empties
\* captureOptions and pendingTableIds, sets capturesLoaded to false and
\* hands exactly one get_captures request with that card's id to the
\* connection.
C27_SelectRequestsCaptures ==
    [][\A card \in HandIds :
          handleHandCard(card)
          => IF ~(~Falsy(gameState) /\ gameState.is_human_turn)
             THEN /\ outbox' = <<>>
                  /\ UNCHANGED <<storeVars, timerVars, pendingTableIds>>
             ELSE card # selectedCard
                  => /\ selectedCard' = card
                     /\ captureOptions' = <<>>
                     /\ pendingTableIds' = {}
                     /\ capturesLoaded' = FALSE
                     /\ Len(outbox') = 1
                     /\ outbox'[1].msg = [type |-> "get_captures",
                                          card_id |-> card]]_vars

\* The second hand card has just been selected and its options requested.
C27_Witness ==
    /\ selectedCard = "h2" /\ captureOptions = <<>> /\ ~capturesLoaded
    /\ pendingTableIds = {}
    /\ Len(outbox) = 1
    /\ outbox[1].msg = [type |-> "get_captures", card_id |-> "h2"]

\* C28 as stated: a tap on a table card changes nothing and hands nothing to
\* the connection when no hand card is selected, when it is not the local
\* turn, or when the card is neither in an option nor pending; otherwise
\* pendingTableIds ends as it was with exactly that card's membership
\* flipped.
C28_ToggleFlipsOneId ==
    [][\A card \in TableIds :
          handleTableCard(card)
          => IF ~TapTakesEffect(card)
             THEN /\ outbox' = <<>>
                  /\ UNCHANGED <<storeVars, timerVars, pendingTableIds>>
             ELSE pendingTableIds' = Toggled(card)]_vars

\* C28, amended: the same, except that when the flipped set is set-equal to
\* a capture option the play is handed to the connection and pendingTableIds
\* ends empty.
C28_ToggleFlipsOneIdUnlessMatch ==
    [][\A card \in TableIds :
          handleTableCard(card)
          => IF ~TapTakesEffect(card)
             THEN /\ outbox' = <<>>
                  /\ UNCHANGED <<storeVars, timerVars, pendingTableIds>>
             ELSE IF SetEqualOption(Toggled(card)) = {}
                  THEN pendingTableIds' = Toggled(card) /\ outbox' = <<>>
                  ELSE pendingTableIds' = {} /\ Len(outbox') = 1
                                            /\ IsPlay(outbox'[1])]_vars

\* Two table cards of different options are pending at once: the second
\* tap added its card and left the first where it was.
C28_Witness ==
    /\ selectedCard # NoId /\ outbox = <<>>
    /\ pendingTableIds = {"c1", "c3"}
    /\ SetEqualOption(pendingTableIds) = {}

\* C29: every play handed to the connection is handed over by executePlay,
\* called with the play's card id and capture ids; and in the state right
\* after a play selectedCard is null, captureOptions and pendingTableIds are
\* empty and capturesLoaded is false.
C29_PlaysOnlyByExecutePlay ==
    /\ []((\E i \in DOMAIN outbox : IsPlay(outbox[i])) => InteractionCleared)
    /\ [][(\E i \in DOMAIN outbox' : IsPlay(outbox'[i]))
             => /\ Len(outbox') = 1
                /\ executePlay(outbox'[1].msg.card_id,
                               outbox'[1].msg.capture_ids)]_vars

\* A one-card capture has just been played and transmitted.
C29_Witness ==
    /\ Len(outbox) = 1 /\ IsPlay(outbox[1]) /\ outbox[1].sent
    /\ outbox[1].msg.card_id \in HandIds
    /\ outbox[1].msg.capture_ids = <<"c3">>
    /\ InteractionCleared

\* The timers pending before a step are all still pending after it.
ScopaTimersKept ==
    /\ Len(scopaTimers') >= Len(scopaTimers)
    /\ SubSeq(scopaTimers', 1, Len(scopaTimers)) = scopaTimers

\* C30: timers are never cancelled. A pending timer is taken off only by
\* its own callback, which sets errorMessage (or lastScopaBy) to null; and
\* timers of a kind cannot stay pending forever without a callback of that
\* kind running again and again, whatever is scheduled, received or
\* disconnected meanwhile. Timers of a kind run oldest first, so every one
\* of them is eventually run.
C30_TimersAlwaysFire ==
    /\ [][errTimers' < errTimers => (ErrTimerFire /\ errorMessage' = NoId)]_vars
    /\ [][~ScopaTimersKept => (ScopaTimerFire /\ lastScopaBy' = Null)]_vars
    /\ ([]<>(errTimers = 0) \/ []<><<ErrTimerFire>>_vars)
    /\ ([]<>(scopaTimers = <<>>) \/ []<><<ScopaTimerFire>>_vars)

\* disconnect() has been called with an error timer and two scopa timers
\* pending.
C30_Witness ==
    /\ ws = 0 /\ Created # {}
    /\ errTimers > 0 /\ Len(scopaTimers) = 2
    /\ errorMessage # NoId /\ lastScopaBy # Null

\* C31: under fair running of the timer callbacks, an errorMessage set by an
\* 'error' message is followed by a state in which errorMessage is null
\* (its timer ran, or a state message arrived before).
C31_ErrorEventuallyCleared ==
    (errorMessage = "illegal") ~> (errorMessage = NoId)

\* An 'error' message has just set the notification and its timer is pending.
C31_Witness ==
    /\ errorMessage = "illegal" /\ errTimers > 0
    /\ ws # 0 /\ readyState[ws] = "OPEN"

\* C32: connect(), disconnect(), the error and close events of any socket
\* and the opponent_disconnected message leave gameState as it was: a step
\* that changes gameState is none of them.
C32_StateSurvivesConnectionChanges ==
    [][gameState' # gameState
       => /\ \A pid \in PlayerIds : ~Connect(pid)
          /\ ~Disconnect
          /\ \A c \in ConnIds :
                ~OnError(c) /\ ~OnClose(c)
                /\ ~OnMessage(c, [type |-> "opponent_disconnected"])]_vars

\* A board received earlier is still held after the opponent left, the
\* socket closed and disconnect() was called.
C32_Witness ==
    /\ ~Falsy(gameState)
    /\ ws = 0 /\ \E c \in ConnIds : readyState[c] = "CLOSED"
    /\ wsStatus = "disconnected"
    /\ errorMessage = "Opponent disconnected."

\* C33: an error or close event of a socket that connect() has replaced
\* leaves wsStatus as it was while the current socket is open.
C33_StaleEventsKeepStatus ==
    [][\A c \in ConnIds :
          (ws # 0 /\ c # ws /\ readyState[ws] = "OPEN"
              /\ (OnError(c) \/ OnClose(c)))
          => wsStatus' = wsStatus]_vars

\* C34: a play with captures carries an option of the server's answer for
\* the card it plays, when the server answers each get_captures request
\* once and in order.
C34_PlayCarriesOwnOption ==
    \A i \in DOMAIN outbox :
        (IsPlay(outbox[i]) /\ outbox[i].msg.capture_ids # <<>>)
        => \E j \in DOMAIN CapturesFor(outbox[i].msg.card_id) :
              outbox[i].msg.capture_ids = CapturesFor(outbox[i].msg.card_id)[j]

\* A tap that hands a play to the connection.
PlayTap ==
    /\ \/ \E card \in HandIds : handleHandCard(card)
       \/ \E card \in TableIds : handleTableCard(card)
    /\ outbox' # <<>> /\ outbox'[1].msg.type = "play"

\* C35: once a play has been handed to the connection, taps alone lead to
\* no second play: after a hand tap that directly follows a play, no tap can
\* send a play.
C35_OnePlayPerState ==
    [][(/\ outbox # <<>> /\ IsPlay(outbox[1])
        /\ \E card \in HandIds : handleHandCard(card))
       => ~(ENABLED PlayTap)']_vars

\* C36: a play that executePlay handed to the connection, with the
\* interaction state cleared behind it, went out on the socket.
C36_ClearedPlayWasTransmitted ==
    (outbox # <<>> /\ IsPlay(outbox[1]) /\ InteractionCleared) => outbox[1].sent

\* The pending sets that table taps can build under the options opts without
\* a play: from the sets of S, every accepted tap that matches no option.
QuietTaps(opts, p) ==
    {Toggle(p, c) : c \in {d \in TableIds :
                              /\ d \in capturableIds(opts) \/ d \in p
                              /\ ExactMatch(opts, Toggle(p, d)) = 0}}
RECURSIVE PendingReach(_, _)
PendingReach(opts, S) ==
    LET T == S \cup UNION {QuietTaps(opts, p) : p \in S}
    IN  IF T = S THEN S ELSE PendingReach(opts, T)

\* The options (by index) that some sequence of table taps starting from an
\* empty pending set ends up playing.
PlayableOptions(opts) ==
    {ExactMatch(opts, Toggle(p, c)) :
        p \in PendingReach(opts, {{}}), c \in capturableIds(opts)} \ {0}

\* C37: with a card selected on the local turn and nothing pending, every
\* capture option can be played by some sequence of table taps: some
\* playable option has exactly its ids.
C37_EveryOptionSelectable ==
    (CardsRendered /\ selectedCard # NoId /\ isMyTurn(gameState)
        /\ pendingTableIds = {})
    => \A i \in DOMAIN captureOptions :
          \E m \in PlayableOptions(captureOptions) :
             Range(captureOptions[m]) = Range(captureOptions[i])

\* C38: the sweep event on display is cleared only by its own timer, the
\* one scheduled last: a callback that clears an event is the only one
\* pending.
C38_EventClearedByOwnTimer ==
    [][(lastScopaBy # Null /\ ScopaTimerFire) => Len(scopaTimers) = 1]_vars

\* C39: the 'Opponent disconnected.' notification, which has no timer of its
\* own, is taken off only by a state message: no timer of an earlier 'error'
\* message clears it.
C39_NoticeClearedByOwnTimer ==
    [][(errorMessage = "Opponent disconnected." /\ errorMessage' = NoId)
       => \E c \in ConnIds, f \in TurnFrames : IsState(f) /\ OnMessage(c, f)]_vars

\* C40: isWaiting is true only while wsStatus is 'waiting'.
C40_WaitingAgreesWithStatus == isWaiting => wsStatus = "waiting"

====
